---- MODULE Spec2Model ----
(***************************************************************************)
(* The CHIP-8 virtual CPU of src/src/chip.rs (struct Chip), driven through *)
(* its public interface: new(), load_rom(), frame(), tone(), disp().       *)
(*                                                                         *)
(* How the source text is read.  chip.rs names several items that are      *)
(* declared nowhere; each is read as the one declared item it can denote:  *)
(*   self.delay_timer / self.sound_timer  -> the fields dt / st            *)
(*   self.mem / self.ram (one index)      -> the field memory              *)
(*   self.mem[y][x] (two indices)         -> the display pixel (x, y)      *)
(*   RAM_SIZE                             -> ROM_SIZE                      *)
(*   V[x], v[y]                           -> self.v[x], self.v[y]          *)
(*   ProgramCounter::Nexto                -> ProgramCounter::Next          *)
(*   self.op_exa1                         -> op_exal                       *)
(*   [0, CHIP8_MEM]                       -> [0; CHIP8_MEM]                *)
(*   self.exec(w0, w1)                    -> exec of the word w0 << 8 | w1 *)
(* Everything else is kept as written: which field a statement assigns,    *)
(* which value a branch returns, and what a function does not do.  In      *)
(* particular exec() binds the handler's result to pc_change and ends      *)
(* there: no statement assigns self.pc, and no statement builds the        *)
(* Result that frame() reads as `adv`.  The cost `adv` is therefore a      *)
(* value the source leaves open; it is drawn from AdvCosts at every        *)
(* executed instruction.                                                   *)
(*                                                                         *)
(* op_fx15 and FONT_SET are used by chip.rs and defined nowhere under      *)
(* src/; they are modelled from the specification.                         *)
(*                                                                         *)
(* Integer overflow is build dependent in Rust (a panic with overflow      *)
(* checks, two's-complement wrapping without); overflow_checks selects the *)
(* build.  An out-of-range index panics in both.                           *)
(***************************************************************************)
EXTENDS Integers, Sequences, FiniteSets, TLC

\* ---------------------------------------------------------------- constants

CHIP8_WIDTH == 64

CHIP8_HEIGHT == 32

CHIP8_MEM == 4096

ROM_SIZE == 512

OPCODE_SIZE == 2

FRAME_TIME == 16666

RAM_SIZE == ROM_SIZE

STACK_SIZE == 16

NUM_REGS == 16

NUM_KEYS == 16

U8 == 256

U16 == 65536

\* ------------------------------------------------------------------- bounds

\* exec's cost is one of 0, AdvUnit, ..., MaxAdvUnits * AdvUnit
MaxAdvUnits == 2

\* load_rom may be called at most MaxLoads times
MaxLoads == 3

AdvUnit == FRAME_TIME \div 2

AdvCosts == {u * AdvUnit : u \in 0..MaxAdvUnits}

\* ------------------------------------------------------------- bit helpers

RECURSIVE BitAnd(_, _)
BitAnd(a, b) ==
    IF a = 0 \/ b = 0 THEN 0
    ELSE (a % 2) * (b % 2) + 2 * BitAnd(a \div 2, b \div 2)

RECURSIVE BitOr(_, _)
BitOr(a, b) ==
    IF a = 0 THEN b
    ELSE IF b = 0 THEN a
    ELSE (IF a % 2 = 1 \/ b % 2 = 1 THEN 1 ELSE 0) + 2 * BitOr(a \div 2, b \div 2)

RECURSIVE BitXor(_, _)
BitXor(a, b) ==
    IF a = 0 THEN b
    ELSE IF b = 0 THEN a
    ELSE ((a + b) % 2) + 2 * BitXor(a \div 2, b \div 2)

Min(S) == CHOOSE m \in S : \A k \in S : m <= k

\* the built-in hexadecimal digit sprites, 16 glyphs of 5 bytes
FONT_SET ==
    << 240, 144, 144, 144, 240,   32,  96,  32,  32, 112,
       240,  16, 240, 128, 240,  240,  16, 240,  16, 240,
       144, 144, 240,  16,  16,  240, 128, 240,  16, 240,
       240, 128, 240, 144, 240,  240,  16,  32,  64,  64,
       240, 144, 240, 144, 240,  240, 144, 240,  16, 240,
       240, 144, 240, 144, 144,  224, 144, 224, 144, 224,
       240, 128, 128, 128, 240,  224, 144, 144, 144, 224,
       240, 128, 240, 128, 240,  240, 128, 240, 128, 128 >>

\* ------------------------------------------------------------------- state

VARIABLES
    memory,          \* [u8; CHIP8_MEM]
    v,               \* [u8; 16]
    i,               \* u16 index register
    pc,              \* u16 program counter
    stack,           \* [u16; 16]
    sp,              \* u8 stack pointer
    dt,              \* u8 delay timer
    st,              \* u8 sound timer
    input_wait,      \* bool
    input_keys,      \* what was assigned to the field: a key snapshot or a number
    input_register,  \* u16
    disp,            \* the display, addressed disp[y][x]
    tone,            \* bool
    time,            \* isize time accumulator
    overflow_checks, \* the build: TRUE when integer overflow panics
    at,              \* position of the caller / of frame(): idle, exec, loop, panicked
    ret,             \* result of the last load_rom() or frame() call
    call,            \* the last call, its argument, and whether frame() found input_wait set
    opcode,          \* the instruction word fetched last
    pc_change,       \* exec's local: the ProgramCounter value the handler returned
    loads,           \* number of load_rom calls so far
    wait_x,          \* the x of the Fx0A instruction executed last
    roms             \* the caller's ROM images, in loading order

chip == <<memory, v, i, pc, stack, sp, dt, st, input_wait, input_keys,
          input_register, disp, tone, time>>

vars == <<memory, v, i, pc, stack, sp, dt, st, input_wait, input_keys,
          input_register, disp, tone, time, overflow_checks, at, ret, call,
          opcode, pc_change, loads, wait_x, roms>>

\* the fields of struct Chip as one value
Chip ==
    [memory |-> memory, v |-> v, i |-> i, pc |-> pc, stack |-> stack, sp |-> sp,
     dt |-> dt, st |-> st, input_wait |-> input_wait, input_keys |-> input_keys,
     input_register |-> input_register, disp |-> disp, tone |-> tone, time |-> time]

\* the state becomes the Chip value c
Becomes(c) ==
    /\ memory' = c.memory
    /\ v' = c.v
    /\ i' = c.i
    /\ pc' = c.pc
    /\ stack' = c.stack
    /\ sp' = c.sp
    /\ dt' = c.dt
    /\ st' = c.st
    /\ input_wait' = c.input_wait
    /\ input_keys' = c.input_keys
    /\ input_register' = c.input_register
    /\ disp' = c.disp
    /\ tone' = c.tone
    /\ time' = c.time

\* enum ProgramCounter; NoChange stands for a handler that yields no value
Next_ == [kind |-> "Next", target |-> 0]

Skip == [kind |-> "Skip", target |-> 0]

Jump(t) == [kind |-> "Jump", target |-> t]

NoChange == [kind |-> "None", target |-> 0]

\* results of load_rom() and frame()
NoResult == [kind |-> "None", err |-> "", arg |-> 0]

Ok == [kind |-> "Ok", err |-> "", arg |-> 0]

Err(e, a) == [kind |-> "Err", err |-> e, arg |-> a]

Panicked == [kind |-> "Panic", err |-> "", arg |-> 0]

NoKeys == [k \in 0..(NUM_KEYS - 1) |-> FALSE]

\* the two kinds of value the source assigns to input_keys: the [bool; 16]
\* snapshot (frame) and a number (new: 0, op_fx0a: x)
KeyStates(keys) == [kind |-> "keys", keys |-> keys, num |-> 0]

KeyNumber(n) == [kind |-> "number", keys |-> NoKeys, num |-> n]

\* ------------------------------------------------------------ construction

new ==
    [memory |-> [a \in 0..(CHIP8_MEM - 1) |->
                    IF a < Len(FONT_SET) THEN FONT_SET[a + 1] ELSE 0],
     v |-> [r \in 0..(NUM_REGS - 1) |-> 0],
     i |-> 0,
     pc |-> ROM_SIZE,
     stack |-> [s \in 0..(STACK_SIZE - 1) |-> 0],
     sp |-> 0,
     dt |-> 0,
     st |-> 0,
     input_wait |-> FALSE,
     input_keys |-> KeyNumber(0),
     input_register |-> 0,
     disp |-> [y \in 0..(CHIP8_HEIGHT - 1) |-> [x \in 0..(CHIP8_WIDTH - 1) |-> 0]],
     tone |-> FALSE,
     time |-> 0]

\* ------------------------------------------------------------- ROM loading

\* load_rom with the size test off by one
load_rom_mut(c, rom) ==
    IF Len(rom) >= CHIP8_MEM - RAM_SIZE
    THEN [c |-> c, ret |-> Err("RomTooLarge", Len(rom))]
    ELSE [c |-> [c EXCEPT !.memory =
                    [a \in ROM_SIZE..(ROM_SIZE + Len(rom) - 1) |-> rom[a - ROM_SIZE + 1]]
                    @@ c.memory],
          ret |-> Ok]

\* load_rom's result and the memory it leaves
load_rom(c, rom) ==
    IF Len(rom) > CHIP8_MEM - RAM_SIZE
    THEN [c |-> c, ret |-> Err("RomTooLarge", Len(rom))]
    ELSE [c |-> [c EXCEPT !.memory =
                    [a \in ROM_SIZE..(ROM_SIZE + Len(rom) - 1) |-> rom[a - ROM_SIZE + 1]]
                    @@ c.memory],
          ret |-> Ok]

tone_ == tone

\* ------------------------------------------------------ instruction handlers
\* A handler maps the Chip value to the Chip value it leaves, the ProgramCounter
\* value it returns, and whether it panicked.

Done(c, pcc) == [c |-> c, pcc |-> pcc, panic |-> FALSE]

Panic(c) == [c |-> c, pcc |-> NoChange, panic |-> TRUE]

op_00e0(c) ==
    Done([c EXCEPT !.disp =
            [y \in 0..(CHIP8_HEIGHT - 1) |-> [x \in 0..(CHIP8_WIDTH - 1) |-> 0]]],
         Next_)

op_00ee(c) ==
    IF c.sp = 0
    THEN \* self.sp -= 1 underflows: a panic, or sp = 255 and stack[255] panics
         IF overflow_checks THEN Panic(c) ELSE Panic([c EXCEPT !.sp = U8 - 1])
    ELSE IF c.sp - 1 > STACK_SIZE - 1
         THEN Panic([c EXCEPT !.sp = c.sp - 1])
         ELSE Done([c EXCEPT !.sp = c.sp - 1], Jump(c.stack[c.sp - 1]))

op_1nnn(c, nnn) == Done(c, Jump(nnn))

op_2nnn(c, nnn) ==
    IF c.sp > STACK_SIZE - 1
    THEN Panic(c)
    ELSE IF c.pc + OPCODE_SIZE > U16 - 1 /\ overflow_checks
         THEN Panic(c)
         ELSE Done([c EXCEPT !.stack[c.sp] = (c.pc + OPCODE_SIZE) % U16,
                             !.sp = c.sp + 1],
                   Jump(nnn))

op_3xkk(c, x, kk) == Done(c, IF c.v[x] = kk THEN Skip ELSE Next_)

op_4xkk(c, x, kk) == Done(c, IF c.v[x] # kk THEN Skip ELSE Next_)

\* the if has no else: no value when the registers differ
op_5xy0(c, x, y) == Done(c, IF c.v[x] = c.v[y] THEN Skip ELSE NoChange)

op_6xkk(c, x, kk) == Done([c EXCEPT !.v[x] = kk], Next_)

op_7xkk(c, x, kk) == Done([c EXCEPT !.v[x] = (c.v[x] + kk) % U8], Next_)

op_8xy0(c, x, y) == Done([c EXCEPT !.v[x] = c.v[y]], Next_)

op_8xy1(c, x, y) == Done([c EXCEPT !.v[x] = BitOr(c.v[x], c.v[y])], Next_)

op_8xy2(c, x, y) == Done([c EXCEPT !.v[x] = BitAnd(c.v[x], c.v[y])], Next_)

op_8xy3(c, x, y) == Done([c EXCEPT !.v[x] = BitXor(c.v[x], c.v[y])], Next_)

op_8xy4(c, x, y) ==
    IF c.v[x] - c.v[y] < 0 /\ overflow_checks
    THEN Panic(c)
    ELSE LET result == (c.v[x] - c.v[y]) % U16
             c1 == [c EXCEPT !.v[x] = result % U8]
         IN Done([c1 EXCEPT !.v[15] = IF result > 255 THEN 1 ELSE 0], Next_)

op_8xy5(c, x, y) ==
    LET c1 == [c EXCEPT !.v[15] = IF c.v[x] > c.v[y] THEN 1 ELSE 0]
    IN Done([c1 EXCEPT !.v[x] = (c1.v[x] - c1.v[y]) % U8], Next_)

\* op_8xy6 with the flag taken after the shift
op_8xy6_mut(c, x) ==
    LET c1 == [c EXCEPT !.v[x] = c.v[x] \div 2]
    IN Done([c1 EXCEPT !.v[15] = c1.v[x] % 2], Next_)

op_8xy6(c, x) ==
    LET c1 == [c EXCEPT !.v[15] = c.v[x] % 2]
    IN Done([c1 EXCEPT !.v[x] = c1.v[x] \div 2], Next_)

op_8xy7(c, x, y) ==
    LET c1 == [c EXCEPT !.v[15] = IF c.v[y] > c.v[x] THEN 1 ELSE 0]
    IN Done([c1 EXCEPT !.v[x] = (c1.v[y] - c1.v[x]) % U8], Next_)

op_8xye(c, x) ==
    LET c1 == [c EXCEPT !.v[15] = BitAnd(c.v[x], 128) \div 128]
    IN Done([c1 EXCEPT !.v[x] = (c1.v[x] * 2) % U8], Next_)

op_9xy0(c, x, y) == Done(c, IF c.v[x] # c.v[y] THEN Skip ELSE Next_)

op_annn(c, nnn) == Done([c EXCEPT !.i = nnn], Next_)

op_bnnn(c, nnn) == Done(c, Jump(c.v[0] + nnn))

\* rnd is the byte rng.gen::<u8>() yields
op_cxkk(c, x, kk, rnd) == Done([c EXCEPT !.v[x] = BitAnd(rnd, kk)], Next_)

\* one sprite row: bit by bit, v[x] re-read at every bit, the row py fixed
RECURSIVE draw_bits(_, _, _, _, _)
draw_bits(c, x, py, byte, bit) ==
    IF bit > 7 THEN c
    ELSE LET px == (c.v[x] + bit) % CHIP8_WIDTH
             colour == (c.memory[c.i + byte] \div (2 ^ (7 - bit))) % 2
             c1 == [c EXCEPT !.v[15] = BitOr(c.v[15], BitAnd(colour, c.disp[py][px]))]
         IN draw_bits([c1 EXCEPT !.disp[py][px] = BitXor(c.disp[py][px], colour)],
                      x, py, byte, bit + 1)

RECURSIVE draw(_, _, _, _, _)
draw(c, x, y, n, byte) ==
    IF byte >= n THEN Done(c, Next_)
    ELSE IF c.i + byte > CHIP8_MEM - 1
         THEN Panic(c)
         ELSE draw(draw_bits(c, x, (c.v[y] + byte) % CHIP8_HEIGHT, byte, 0),
                   x, y, n, byte + 1)

op_dxyn(c, x, y, n) == draw([c EXCEPT !.v[15] = 0], x, y, n, 0)

\* both branches return Skip; the key index v[x] must be inside input_keys
op_ex9e(c, x) == IF c.v[x] > NUM_KEYS - 1 THEN Panic(c) ELSE Done(c, Skip)

op_exal(c, x) == IF c.v[x] > NUM_KEYS - 1 THEN Panic(c) ELSE Done(c, Skip)

op_fx07(c, x) == Done([c EXCEPT !.v[x] = c.dt], Next_)

\* x is assigned to input_keys; input_register is not written
op_fx0a(c, x) == Done([c EXCEPT !.input_wait = TRUE, !.input_keys = KeyNumber(x)], Next_)

op_fx15(c, x) == Done([c EXCEPT !.dt = c.v[x]], Next_)

op_fx18(c, x) == Done([c EXCEPT !.st = c.v[x]], Next_)

op_fx1e(c, x) ==
    LET c1 == [c EXCEPT !.i = c.v[x]]
    IN Done([c1 EXCEPT !.v[15] = IF c1.i > 3840 THEN 1 ELSE 0], Next_)

op_fx29(c, x) ==
    IF c.v[x] * 5 > U8 - 1 /\ overflow_checks
    THEN Panic(c)
    ELSE Done([c EXCEPT !.i = (c.v[x] * 5) % U8], Next_)

op_fx33(c, x) ==
    IF c.i > CHIP8_MEM - 1 THEN Panic(c)
    ELSE LET c1 == [c EXCEPT !.memory[c.i] = c.v[x] \div 100]
         IN IF c.i + 1 > CHIP8_MEM - 1 THEN Panic(c1)
            ELSE LET c2 == [c1 EXCEPT !.memory[c.i + 1] = (c.v[x] % 100) \div 10]
                 IN IF c.i + 2 > CHIP8_MEM - 1 THEN Panic(c2)
                    ELSE Done([c2 EXCEPT !.memory[c.i + 2] = c.v[x] % 10], Next_)

\* every register V0..Vx is stored at the one address I + 1
op_fx55(c, x) ==
    IF c.i + 1 > CHIP8_MEM - 1 THEN Panic(c)
    ELSE Done([c EXCEPT !.memory[c.i + 1] = c.v[x]], Next_)

RECURSIVE load_regs(_, _, _)
load_regs(c, x, k) ==
    IF k > x THEN Done(c, Next_)
    ELSE IF c.i + k > CHIP8_MEM - 1 THEN Panic(c)
         ELSE load_regs([c EXCEPT !.v[k] = c.memory[c.i + k]], x, k + 1)

op_fx65(c, x) == load_regs(c, x, 0)

\* ------------------------------------------------------------------ decode

Nibble(op, k) == (op \div (16 ^ (3 - k))) % 16

\* the arms of exec's match, in order; "none" when no arm matches
decode(op) ==
    LET n0 == Nibble(op, 0)
        n1 == Nibble(op, 1)
        n2 == Nibble(op, 2)
        n3 == Nibble(op, 3)
    IN CASE n0 = 0 /\ n1 = 0 /\ n2 = 14 /\ n3 = 0 -> "op_00e0"
         [] n0 = 0 /\ n1 = 0 /\ n2 = 14 /\ n3 = 14 -> "op_00ee"
         [] n0 = 1 -> "op_1nnn"
         [] n0 = 2 -> "op_2nnn"
         [] n0 = 3 -> "op_3xkk"
         [] n0 = 4 -> "op_4xkk"
         [] n0 = 5 /\ n3 = 0 -> "op_5xy0"
         [] n0 = 6 -> "op_6xkk"
         [] n0 = 7 -> "op_7xkk"
         [] n0 = 8 /\ n3 = 0 -> "op_8xy0"
         [] n0 = 8 /\ n3 = 1 -> "op_8xy1"
         [] n0 = 8 /\ n3 = 2 -> "op_8xy2"
         [] n0 = 8 /\ n3 = 3 -> "op_8xy3"
         [] n0 = 8 /\ n3 = 4 -> "op_8xy4"
         [] n0 = 8 /\ n3 = 5 -> "op_8xy5"
         [] n0 = 8 /\ n3 = 6 -> "op_8xy6"
         [] n0 = 8 /\ n3 = 7 -> "op_8xy7"
         [] n0 = 8 /\ n3 = 14 -> "op_8xye"
         [] n0 = 9 /\ n3 = 0 -> "op_9xy0"
         [] n0 = 10 -> "op_annn"
         [] n0 = 11 -> "op_bnnn"
         [] n0 = 12 -> "op_cxkk"
         [] n0 = 13 -> "op_dxyn"
         [] n0 = 14 /\ n2 = 9 /\ n3 = 14 -> "op_ex9e"
         [] n0 = 14 /\ n2 = 10 /\ n3 = 1 -> "op_exal"
         [] n0 = 15 /\ n2 = 0 /\ n3 = 7 -> "op_fx07"
         [] n0 = 15 /\ n2 = 0 /\ n3 = 10 -> "op_fx0a"
         [] n0 = 15 /\ n2 = 1 /\ n3 = 5 -> "op_fx15"
         [] n0 = 15 /\ n2 = 1 /\ n3 = 8 -> "op_fx18"
         [] n0 = 15 /\ n2 = 1 /\ n3 = 14 -> "op_fx1e"
         [] n0 = 15 /\ n2 = 2 /\ n3 = 9 -> "op_fx29"
         [] n0 = 15 /\ n2 = 3 /\ n3 = 3 -> "op_fx33"
         [] n0 = 15 /\ n2 = 5 /\ n3 = 5 -> "op_fx55"
         [] n0 = 15 /\ n2 = 6 /\ n3 = 5 -> "op_fx65"
         [] OTHER -> "none"

\* the match of exec: the handler of the matching arm runs; with no matching
\* arm nothing runs
dispatch(c, op, rnd) ==
    LET nnn == op % 4096
        kk == op % 256
        x == Nibble(op, 1)
        y == Nibble(op, 2)
        n == Nibble(op, 3)
        h == decode(op)
    IN CASE h = "op_00e0" -> op_00e0(c)
         [] h = "op_00ee" -> op_00ee(c)
         [] h = "op_1nnn" -> op_1nnn(c, nnn)
         [] h = "op_2nnn" -> op_2nnn(c, nnn)
         [] h = "op_3xkk" -> op_3xkk(c, x, kk)
         [] h = "op_4xkk" -> op_4xkk(c, x, kk)
         [] h = "op_5xy0" -> op_5xy0(c, x, y)
         [] h = "op_6xkk" -> op_6xkk(c, x, kk)
         [] h = "op_7xkk" -> op_7xkk(c, x, kk)
         [] h = "op_8xy0" -> op_8xy0(c, x, y)
         [] h = "op_8xy1" -> op_8xy1(c, x, y)
         [] h = "op_8xy2" -> op_8xy2(c, x, y)
         [] h = "op_8xy3" -> op_8xy3(c, x, y)
         [] h = "op_8xy4" -> op_8xy4(c, x, y)
         [] h = "op_8xy5" -> op_8xy5(c, x, y)
         [] h = "op_8xy6" -> op_8xy6(c, x)
         [] h = "op_8xy7" -> op_8xy7(c, x, y)
         [] h = "op_8xye" -> op_8xye(c, x)
         [] h = "op_9xy0" -> op_9xy0(c, x, y)
         [] h = "op_annn" -> op_annn(c, nnn)
         [] h = "op_bnnn" -> op_bnnn(c, nnn)
         [] h = "op_cxkk" -> op_cxkk(c, x, kk, rnd)
         [] h = "op_dxyn" -> op_dxyn(c, x, y, n)
         [] h = "op_ex9e" -> op_ex9e(c, x)
         [] h = "op_exal" -> op_exal(c, x)
         [] h = "op_fx07" -> op_fx07(c, x)
         [] h = "op_fx0a" -> op_fx0a(c, x)
         [] h = "op_fx15" -> op_fx15(c, x)
         [] h = "op_fx18" -> op_fx18(c, x)
         [] h = "op_fx1e" -> op_fx1e(c, x)
         [] h = "op_fx29" -> op_fx29(c, x)
         [] h = "op_fx33" -> op_fx33(c, x)
         [] h = "op_fx55" -> op_fx55(c, x)
         [] h = "op_fx65" -> op_fx65(c, x)
         [] OTHER -> Done(c, NoChange)

\* exec with the handler's result applied to the program counter
exec_mut(c, op, rnd) ==
    LET r == dispatch(c, op, rnd)
    IN IF r.panic \/ r.pcc.kind = "None" THEN r
       ELSE [r EXCEPT !.c.pc = CASE r.pcc.kind = "Next" -> (c.pc + OPCODE_SIZE) % U16
                                 [] r.pcc.kind = "Skip" -> (c.pc + 2 * OPCODE_SIZE) % U16
                                 [] OTHER -> r.pcc.target]

\* exec: the handler's result is bound to pc_change and the function ends;
\* self.pc is not assigned
exec(c, op, rnd) == dispatch(c, op, rnd)

\* the bytes rng.gen::<u8>() can yield, where the instruction draws one
RandBytes(op) == IF decode(op) = "op_cxkk" THEN 0..(U8 - 1) ELSE {0}

get_opcode(c) == c.memory[c.pc] * 256 + c.memory[c.pc + 1]

\* ------------------------------------------------------------------- frame

Pressed(keys) == {k \in 0..(NUM_KEYS - 1) : keys[k]}

\* frame, input_wait set: the first pressed key ends the wait
frame_wait(c, keys) ==
    IF Pressed(keys) = {} THEN c
    ELSE [c EXCEPT !.input_wait = FALSE,
                   !.v[c.input_register] = Min(Pressed(keys))]

\* the timers decremented without the test for 0
frame_timers_mut(c) ==
    [c EXCEPT !.dt = (c.dt - 1) % U8,
              !.st = (c.st - 1) % U8]

\* frame, input_wait clear: both timers count down to 0
frame_timers(c) ==
    [c EXCEPT !.dt = IF c.dt > 0 THEN c.dt - 1 ELSE c.dt,
              !.st = IF c.st > 0 THEN c.st - 1 ELSE c.st]

\* the loop's guard on the program counter
pc_out_of_bounds(c) == c.pc > CHIP8_MEM - 1

\* ------------------------------------------------------------------ inputs

\* The ROM images the caller loads, in order, a frame() call or more after each.
\* The program counter stays at ROM_SIZE, so an image is one instruction.
RomSequences ==
    { << << \h61, \h01 >>, << \hF1, \h18 >>, << \h30, \h00 >> >>,  \* V1 = 1; ST = V1; skip if V0 = 0
      << << \h61, \h02 >>, << \hF1, \h15 >>, << \h12, \h00 >> >>,  \* V1 = 2; DT = V1; jump 0x200
      << << \h61, \h02 >>, << \hF1, \h15 >>, << \hF2, \h07 >> >>,  \* V1 = 2; DT = V1; V2 = DT
      << << \hF3, \h0A >> >>,                                      \* wait for a key into V3
      << << \hF3, \h0A >>, << \h63, \h09 >> >>,                    \* wait for a key; V3 = 9
      << << \h22, \h00 >>, << \h00, \hEE >> >>,                    \* call 0x200; return
      << << \h00, \hEE >> >>,                                      \* return
      << << \h13, \h00 >>, << \hBF, \hFF >> >>,                    \* jump 0x300; jump V0 + 0xFFF
      << << \hBF, \hFF >>, << \h12, \h01 >> >>,                    \* jump V0 + 0xFFF; jump 0x201
      << << \h51, \h01 >>, << \h81, \h28 >> >>,                    \* 5101, 8128: no instruction
      << << \hE1, \hFF >>, << \hF1, \hFF >> >>,                    \* E1FF, F1FF: no instruction
      << << \h00, \hE0 >>, << \h40, \h00 >>, << \h50, \h10 >> >>,
      << << \h71, \h80 >>, << \h80, \h10 >>, << \h80, \h11 >> >>,
      << << \h60, \h03 >>, << \h81, \h02 >>, << \h81, \h03 >> >>,
      << << \h61, \h80 >>, << \h80, \h14 >>, << \h80, \h15 >> >>,
      << << \h61, \h81 >>, << \h81, \h06 >>, << \h80, \h17 >> >>,
      << << \h61, \h81 >>, << \h81, \h0E >>, << \h91, \h00 >> >>,
      << << \hA1, \h23 >>, << \hC1, \h01 >>, << \hD0, \h01 >> >>,
      << << \hE0, \h9E >>, << \hE0, \hA1 >>, << \hF0, \h1E >> >>,
      << << \h61, \h03 >>, << \hF1, \h29 >>, << \hF1, \h33 >> >>,
      << << \h61, \h07 >>, << \hF1, \h55 >>, << \hF1, \h65 >> >>,
      << << \h60, \hFF >>, << \h61, \h01 >>, << \h80, \h14 >> >>,  \* V0 = 0xFF; V1 = 1; 8014
      << << \h60, \h05 >>, << \h61, \h03 >>, << \h80, \h15 >> >>,  \* V0 = 5; V1 = 3; V0 -= V1
      << << \h60, \h05 >>, << \h61, \h03 >>, << \h81, \h07 >> >>,  \* V0 = 5; V1 = 3; V1 = V0 - V1
      << << \h6F, \h03 >>, << \h61, \h05 >>, << \h81, \hF5 >> >>,  \* VF = 3; V1 = 5; V1 -= VF
      << << \h61, \h03 >>, << \h81, \h06 >>, << \h81, \h0E >> >>,  \* V1 = 3; V1 >>= 1; V1 <<= 1
      << << \h6F, \h03 >>, << \h61, \h05 >>, << \h8F, \h15 >> >>,  \* VF = 3; V1 = 5; VF -= V1
      << << \h6F, \h03 >>, << \h8F, \h06 >>, << \h8F, \h0E >> >>,  \* VF = 3; VF >>= 1; VF <<= 1
      << << \h6F, \h03 >>, << \h61, \h01 >>, << \h8F, \h14 >> >>,  \* VF = 3; V1 = 1; 8F14
      << << \h6F, \h03 >>, << \h61, \h05 >>, << \h8F, \h17 >> >>,  \* VF = 3; V1 = 5; VF = V1 - VF
      << << \hD0, \h15 >> >>,                                      \* draw glyph 0 at (V0, V1) = (0, 0)
      << << \h60, \h3E >>, << \h61, \h1F >>, << \hD0, \h15 >> >>,  \* the same at (62, 31): wraps
      << << \h6F, \h03 >>, << \hD0, \hF1 >> >>,                    \* VF = 3; draw one row at (V0, VF)
      << << \h22, \hA0 >>, << \h00, \hEE >> >>,                    \* call 0x2A0; return
      << << \h61, \h07 >>, << \hE1, \h9E >>, << \hE1, \hA1 >> >>,  \* V1 = 7; skip if key V1 (not) pressed
      << << \hAF, \hFF >>, << \hF0, \h33 >> >>,                    \* I = 0xFFF; BCD of V0 at I
      << << \hAF, \hFF >>, << \hF0, \h65 >>, << \hD0, \h02 >> >>,  \* I = 0xFFF; load V0; draw 2 rows
      << << \hA3, \h00 >>, << \hF0, \h33 >>, << \hF2, \h65 >> >> } \* I = 0x300; BCD; load V0..V2

\* ROMs around the largest size that fits, with two fillings
BigRom(n, f) == [k \in 1..n |-> (f * k + 1) % U8]

BoundaryRoms ==
    { BigRom(n, f) : n \in { 0, 2, CHIP8_MEM - ROM_SIZE, CHIP8_MEM - ROM_SIZE + 1 },
                     f \in { 3, 5 } }

PressedSets == { {}, {7}, {2, 5} }

Keypads == { [k \in 0..(NUM_KEYS - 1) |-> k \in P] : P \in PressedSets }

\* ----------------------------------------------------------------- actions

InitChip ==
    /\ memory = new.memory
    /\ v = new.v
    /\ i = new.i
    /\ pc = new.pc
    /\ stack = new.stack
    /\ sp = new.sp
    /\ dt = new.dt
    /\ st = new.st
    /\ input_wait = new.input_wait
    /\ input_keys = new.input_keys
    /\ input_register = new.input_register
    /\ disp = new.disp
    /\ tone = new.tone
    /\ time = new.time
    /\ overflow_checks \in BOOLEAN
    /\ at = "idle"
    /\ ret = NoResult
    /\ call = [op |-> "new", rom |-> <<>>, keys |-> NoKeys, waiting |-> FALSE]
    /\ opcode = 0
    /\ pc_change = NoChange
    /\ loads = 0
    /\ wait_x = 0

Init == InitChip /\ roms \in RomSequences

\* the caller loads a ROM
LoadRom(rom) ==
    /\ at = "idle"
    /\ loads < MaxLoads
    /\ LET r == load_rom(Chip, rom)
       IN /\ Becomes(r.c)
          /\ ret' = r.ret
    /\ call' = [op |-> "load_rom", rom |-> rom, keys |-> NoKeys, waiting |-> FALSE]
    /\ loads' = loads + 1
    /\ UNCHANGED <<overflow_checks, at, opcode, pc_change, wait_x, roms>>

\* frame() up to the fetch: the snapshot is recorded, then the key wait or the timers
FrameCall(keys) ==
    /\ at = "idle"
    /\ call' = [op |-> "frame", rom |-> <<>>, keys |-> keys, waiting |-> input_wait]
    /\ ret' = NoResult
    /\ LET c == [Chip EXCEPT !.input_keys = KeyStates(keys)]
       IN IF c.input_wait
          THEN LET c1 == frame_wait(c, keys)
               IN /\ Becomes([c1 EXCEPT !.time = c1.time + FRAME_TIME])
                  /\ at' = "loop"
          ELSE /\ Becomes(frame_timers(c))
               /\ at' = "exec"
    /\ UNCHANGED <<overflow_checks, opcode, pc_change, loads, wait_x, roms>>

\* frame(), input_wait clear: get_opcode and exec, the result dropped, then the
\* frame's time is added
FrameExec ==
    /\ at = "exec"
    /\ IF pc + 1 > CHIP8_MEM - 1
       THEN /\ at' = "panicked"
            /\ ret' = Panicked
            /\ UNCHANGED <<chip, opcode, pc_change, wait_x>>
       ELSE /\ opcode' = get_opcode(Chip)
            /\ wait_x' = IF decode(opcode') = "op_fx0a" THEN Nibble(opcode', 1) ELSE wait_x
            /\ \E rnd \in RandBytes(opcode') :
                 LET r == exec(Chip, opcode', rnd)
                 IN /\ pc_change' = r.pcc
                    /\ IF r.panic
                       THEN /\ Becomes(r.c)
                            /\ at' = "panicked"
                            /\ ret' = Panicked
                       ELSE /\ Becomes([r.c EXCEPT !.time = r.c.time + FRAME_TIME])
                            /\ at' = "loop"
                            /\ ret' = ret
    /\ UNCHANGED <<overflow_checks, call, loads, roms>>

\* one round of `while self.time > 0`
FrameLoop ==
    /\ at = "loop"
    /\ time > 0
    /\ IF pc_out_of_bounds(Chip)
       THEN /\ at' = "idle"
            /\ ret' = Err("PcOutOfBounds", pc)
            /\ UNCHANGED <<chip, opcode, pc_change, wait_x>>
       ELSE IF pc + 1 > CHIP8_MEM - 1
       THEN /\ at' = "panicked"
            /\ ret' = Panicked
            /\ UNCHANGED <<chip, opcode, pc_change, wait_x>>
       ELSE /\ opcode' = get_opcode(Chip)
            /\ wait_x' = IF decode(opcode') = "op_fx0a" THEN Nibble(opcode', 1) ELSE wait_x
            /\ \E rnd \in RandBytes(opcode'), adv \in AdvCosts :
                 LET r == exec(Chip, opcode', rnd)
                 IN /\ pc_change' = r.pcc
                    /\ IF r.panic
                       THEN /\ Becomes(r.c)
                            /\ at' = "panicked"
                            /\ ret' = Panicked
                       ELSE /\ Becomes([r.c EXCEPT !.time = r.c.time - adv])
                            /\ at' = "loop"
                            /\ ret' = ret
    /\ UNCHANGED <<overflow_checks, call, loads, roms>>

\* the loop ends: frame() returns Ok(())
FrameReturn ==
    /\ at = "loop"
    /\ time <= 0
    /\ at' = "idle"
    /\ ret' = Ok
    /\ UNCHANGED <<chip, overflow_checks, call, opcode, pc_change, loads, wait_x, roms>>

Next ==
    \/ loads < Len(roms) /\ LoadRom(roms[loads + 1])
    \/ \E keys \in Keypads : FrameCall(keys)
    \/ FrameExec
    \/ FrameLoop
    \/ FrameReturn

Spec == Init /\ [][Next]_vars

\* load_rom alone, on the ROMs around the size limit
NextRom == \E rom \in BoundaryRoms : LoadRom(rom)

InitRom == InitChip /\ roms = <<>>

SpecRom == InitRom /\ [][NextRom]_vars

\* ------------------------------------------------------------------ claims

\* frame() is about to fetch an instruction: before exec at line 110, or in the loop
FetchPoint == at = "exec" \/ (at = "loop" /\ time > 0)

PcValid == pc % 2 = 0 /\ pc >= 0 /\ pc + 1 <= 4095

\* the program counter a ProgramCounter value r asks for, at address p
PcAfter(p, r) ==
    CASE r.kind = "Next" -> p + 2
      [] r.kind = "Skip" -> p + 4
      [] r.kind = "Jump" -> r.target
      [] OTHER -> p

\* C1: every instruction executed in frame()'s loop leaves PC at PC+2 (Next),
\* PC+4 (Skip) or the target (Jump), as the handler's result says.
C1_PcFollowsResult ==
    [][ (at = "loop" /\ at' = "loop" /\ pc_change'.kind # "None")
            => pc' = PcAfter(pc, pc_change') ]_vars

\* C2: load_rom(rom) returns Err(RomTooLarge(len)) exactly when len > 3584;
\* otherwise it returns Ok and memory[0x200 + k] = rom[k] for every k < len.
C2_LoadRom ==
    call.op = "load_rom" =>
        /\ (ret = Err("RomTooLarge", Len(call.rom))) <=> (Len(call.rom) > 3584)
        /\ Len(call.rom) <= 3584 =>
              /\ ret = Ok
              /\ \A k \in 0..(Len(call.rom) - 1) : memory[512 + k] = call.rom[k + 1]

\* a ROM of exactly 3584 bytes was loaded, its last byte at address 0xFFF
C2_Witness ==
    /\ call.op = "load_rom"
    /\ Len(call.rom) = 3584
    /\ ret = Ok
    /\ memory[4095] = call.rom[3584]
    /\ memory[4095] # 0

\* C3: a frame() call that finds the key wait pending and no key pressed
\* changes nothing but the recorded keys and executes no instruction.
C3_WaitFrameChangesNothing ==
    [][ /\ (at = "idle" /\ call'.op = "frame" /\ input_wait /\ Pressed(call'.keys) = {})
            => UNCHANGED <<memory, v, i, pc, stack, sp, dt, st, disp, time, input_wait>>
        /\ (at = "loop" /\ call.waiting /\ Pressed(call.keys) = {})
            => (at' = "idle" /\ UNCHANGED <<memory, v, i, pc, stack, sp, dt, st, disp,
                                            time, input_wait, opcode>>) ]_vars

\* C4: the first frame() call with a key pressed while the wait is pending
\* clears the flag, stores the lowest pressed key in Vx (x of the Fx0A),
\* consumes no budget and executes no instruction.
C4_KeyEndsWait ==
    [][ /\ (at = "idle" /\ call'.op = "frame" /\ input_wait /\ Pressed(call'.keys) # {})
            => /\ ~input_wait'
               /\ v'[wait_x] = Min(Pressed(call'.keys))
               /\ time' = time
        /\ (at = "loop" /\ call.waiting /\ Pressed(call.keys) # {})
            => (at' = "idle" /\ UNCHANGED <<pc, v, time, input_wait, opcode>>) ]_vars

Dec(t) == IF t > 0 THEN t - 1 ELSE 0

\* C5: a frame() call that is not waiting decrements DT and ST by 1 if nonzero,
\* once, before any instruction; the timers stay in 0..255; and an executed
\* instruction changes DT only if it is Fx15 and ST only if it is Fx18.
C5_TimersFramePaced ==
    [][ /\ (at = "idle" /\ at' = "exec") => (dt' = Dec(dt) /\ st' = Dec(st))
        /\ (at # "idle" /\ dt' # dt) => decode(opcode') = "op_fx15"
        /\ (at # "idle" /\ st' # st) => decode(opcode') = "op_fx18"
        /\ dt' \in 0..255
        /\ st' \in 0..255 ]_vars

\* DT was set to V1 = 2, a later frame() call has counted it down to 1, ST is 0
C5_Witness ==
    /\ at = "exec"
    /\ ~call.waiting
    /\ v[1] = 2
    /\ dt = 1
    /\ st = 0
    /\ decode(opcode) = "op_fx15"

\* C6: frame() returns Ok or Err; every round of its loop lowers the time
\* accumulator; and it returns Ok only with the accumulator <= 0.
C6_FrameTerminates ==
    [][ /\ at' # "panicked"
        /\ (at = "loop" /\ at' = "loop") => time' < time
        /\ (at = "loop" /\ at' = "idle" /\ ret'.kind = "Ok") => time' <= 0 ]_vars

C8_InvalidOpcodeIsError ==
    [][ (at = "loop" /\ time > 0 /\ PcValid /\ decode(get_opcode(Chip)) = "none")
            => (ret' = Err("InvalidOperation", get_opcode(Chip)) /\ at' = "idle") ]_vars

\* C9: 0 <= SP <= 16 always; 00EE with SP = 0 and 2nnn with SP = 16 make
\* frame() return an error and leave SP and the stack as they were.
C9_StackChecked ==
    [][ /\ sp' \in 0..16
        /\ (FetchPoint /\ PcValid /\
              \/ (decode(get_opcode(Chip)) = "op_00ee" /\ sp = 0)
              \/ (decode(get_opcode(Chip)) = "op_2nnn" /\ sp = 16))
            => (ret'.kind = "Err" /\ sp' = sp /\ stack' = stack) ]_vars

\* C10: after a frame() call that returned Ok, tone() is true iff ST > 0.
C10_ToneIffSoundTimer ==
    (call.op = "frame" /\ at = "idle" /\ ret = Ok) => (tone_ <=> st > 0)

\* frame() is about to fetch and execute an instruction that exec dispatches to h
Executing(h) == FetchPoint /\ PcValid /\ decode(get_opcode(Chip)) = h

\* the x, y and n of the instruction about to be executed
OpX == Nibble(get_opcode(Chip), 1)

OpY == Nibble(get_opcode(Chip), 2)

OpN == Nibble(get_opcode(Chip), 3)

Flag(b) == IF b THEN 1 ELSE 0

\* C11: 8xy4 with x # 0xF leaves Vx = (Vx + Vy) mod 256 and VF = 1 if the sum
\* exceeds 255, else 0, and no intermediate arithmetic under- or overflows.
C11_AddCarry ==
    [][ (Executing("op_8xy4") /\ OpX # 15)
            => /\ at' # "panicked"
               /\ v'[OpX] = (v[OpX] + v[OpY]) % 256
               /\ v'[15] = Flag(v[OpX] + v[OpY] > 255) ]_vars

\* C12: with x # 0xF, 8xy5 leaves Vx = (Vx - Vy) mod 256 and VF = 1 iff old
\* Vx > old Vy; 8xy7 leaves Vx = (Vy - Vx) mod 256 and VF = 1 iff old Vy > old
\* Vx; Vy is unchanged when y # x and y # 0xF.
C12_SubNotBorrow ==
    [][ /\ (Executing("op_8xy5") /\ OpX # 15)
            => /\ v'[OpX] = (v[OpX] - v[OpY]) % 256
               /\ v'[15] = Flag(v[OpX] > v[OpY])
               /\ (OpY # OpX /\ OpY # 15) => v'[OpY] = v[OpY]
        /\ (Executing("op_8xy7") /\ OpX # 15)
            => /\ v'[OpX] = (v[OpY] - v[OpX]) % 256
               /\ v'[15] = Flag(v[OpY] > v[OpX])
               /\ (OpY # OpX /\ OpY # 15) => v'[OpY] = v[OpY] ]_vars

\* C13: with x # 0xF, 8xy6 leaves VF = the old lowest bit of Vx and Vx = old
\* Vx div 2; 8xyE leaves VF = the old highest bit of Vx and Vx = (old Vx * 2)
\* mod 256.
C13_Shift ==
    [][ /\ (Executing("op_8xy6") /\ OpX # 15)
            => /\ v'[15] = v[OpX] % 2
               /\ v'[OpX] = v[OpX] \div 2
        /\ (Executing("op_8xye") /\ OpX # 15)
            => /\ v'[15] = v[OpX] \div 128
               /\ v'[OpX] = (v[OpX] * 2) % 256 ]_vars

\* 8106 has shifted V1 = 3 right: V1 = 1 and VF = 1
C13_Witness ==
    /\ at = "loop"
    /\ decode(opcode) = "op_8xy6"
    /\ Nibble(opcode, 1) = 1
    /\ pc_change = Next_
    /\ v[1] = 1
    /\ v[15] = 1

\* the pixels (x, y) the sprite rows memory[I .. I+n) light when drawn at (vx, vy)
SpritePixels(vx, vy, n) ==
    { <<(vx + bit) % 64, (vy + row) % 32>> :
        <<row, bit>> \in { rb \in (0..(n - 1)) \X (0..7) :
                              (memory[i + rb[1]] \div (2 ^ (7 - rb[2]))) % 2 = 1 } }

\* C14: Dxyn XORs the n sprite rows at memory[I .. I+n) onto the display at
\* ((Vx + bit) mod 64, (Vy + row) mod 32) and leaves VF = 1 iff a pixel that
\* was on is turned off, else 0.
C14_DrawXor ==
    [][ (Executing("op_dxyn") /\ i + OpN <= 4096)
            => LET lit == SpritePixels(v[OpX], v[OpY], OpN)
               IN /\ disp' = [y \in 0..31 |-> [x \in 0..63 |->
                                 IF <<x, y>> \in lit THEN 1 - disp[y][x] ELSE disp[y][x]]]
                  /\ v'[15] = Flag(\E p \in lit : disp[p[2]][p[1]] = 1) ]_vars

\* C15: Fx55 writes memory[I + k] = Vk for every k in 0..x and changes no other
\* byte and no register; Fx65 sets Vk = memory[I + k] for every k in 0..x and
\* leaves the other registers and memory unchanged.
C15_StoreLoadRegisters ==
    [][ /\ (Executing("op_fx55") /\ i + OpX <= 4095)
            => /\ memory' = [a \in 0..4095 |->
                               IF a \in i..(i + OpX) THEN v[a - i] ELSE memory[a]]
               /\ v' = v
        /\ (Executing("op_fx65") /\ i + OpX <= 4095)
            => /\ v' = [k \in 0..15 |-> IF k <= OpX THEN memory[i + k] ELSE v[k]]
               /\ memory' = memory ]_vars

\* C16: 2nnn at address a with SP = s < 16 stores a + 2 in stack slot s, sets
\* SP = s + 1 and PC = nnn; 00EE with SP = s > 0 sets SP = s - 1 and PC to the
\* address stored in slot s - 1.
C16_CallReturn ==
    [][ /\ (Executing("op_2nnn") /\ sp < 16)
            => /\ stack' = [stack EXCEPT ![sp] = pc + 2]
               /\ sp' = sp + 1
               /\ pc' = get_opcode(Chip) % 4096
        /\ (Executing("op_00ee") /\ sp \in 1..16)
            => /\ sp' = sp - 1
               /\ stack' = stack
               /\ pc' = stack[sp - 1] ]_vars

\* the key numbered by Vx of the instruction about to be executed is pressed
\* in the snapshot of the current frame() call
KeyDown == call.keys[v[OpX]]

\* C17: Ex9E skips (PC += 4) iff the key numbered Vx is pressed in the
\* frame's snapshot and otherwise advances by 2; ExA1 skips iff it is not
\* pressed and otherwise advances by 2.
C17_KeySkips ==
    [][ /\ (Executing("op_ex9e") /\ v[OpX] <= 15)
            => /\ pc_change' = IF KeyDown THEN Skip ELSE Next_
               /\ pc' = IF KeyDown THEN pc + 4 ELSE pc + 2
        /\ (Executing("op_exal") /\ v[OpX] <= 15)
            => /\ pc_change' = IF KeyDown THEN Next_ ELSE Skip
               /\ pc' = IF KeyDown THEN pc + 2 ELSE pc + 4 ]_vars

\* C18: 8xy4, 8xy5, 8xy6, 8xy7 and 8xyE with x = 0xF leave the flag in VF
\* (carry, not-borrow, shifted-out bit), not the arithmetic result.
C18_FlagWrittenLast ==
    [][ /\ (Executing("op_8xy4") /\ OpX = 15) => v'[15] = Flag(v[15] + v[OpY] > 255)
        /\ (Executing("op_8xy5") /\ OpX = 15) => v'[15] = Flag(v[15] > v[OpY])
        /\ (Executing("op_8xy6") /\ OpX = 15) => v'[15] = v[15] % 2
        /\ (Executing("op_8xy7") /\ OpX = 15) => v'[15] = Flag(v[OpY] > v[15])
        /\ (Executing("op_8xye") /\ OpX = 15) => v'[15] = v[15] \div 128 ]_vars

\* C19: memory[k] = FONT_SET[k] for every k in 0..79, in every state.
C19_FontImmutable == \A k \in 0..79 : memory[k] = FONT_SET[k + 1]

\* C20: the addresses Dxyn reads (I + row, row < n), Fx33 writes (I .. I + 2)
\* and Fx55 / Fx65 access (I + k, k <= x) are inside 0x000..0xFFF whenever
\* the instruction is executed.
C20_IndexInMemory ==
    /\ (Executing("op_dxyn") /\ OpN > 0) => i + OpN - 1 <= 4095
    /\ Executing("op_fx33") => i + 2 <= 4095
    /\ Executing("op_fx55") => i + OpX <= 4095
    /\ Executing("op_fx65") => i + OpX <= 4095

====
